---------------------------- MODULE Spec2Model ----------------------------
(***************************************************************************)
(* A model of the balanced-direction crate: the nine-valued Balance enum   *)
(* (src/src/balance.rs, conversions.rs, operations.rs) and the Path        *)
(* sequence of moves built on it (src/src/path.rs).                        *)
(*                                                                         *)
(* A fallible function returns a result record: Ok(v) when it returns v,   *)
(* Panicked(msg) when it reaches panic!(msg).  f64 angles are fixed-point  *)
(* integers, AngleScale units per degree; i8 values are integers in        *)
(* I8Min..I8Max.                                                           *)
(***************************************************************************)
EXTENDS Integers, Sequences, FiniteSets, TLC

VARIABLES
    bal,              \* the Balance value the operators are applied to
    raw,              \* Path.raw, the Vec<Balance> of the path
    overflow_checks,  \* build profile: TRUE = overflow panics, FALSE = wraps
    call,             \* the current call: [op |-> name, args |-> arguments]
    ret,              \* what the call did: Ok(value) or Panicked(msg)
    pc                \* "call": the call is about to run; "done": it has returned

vars == <<bal, raw, overflow_checks, call, ret, pc>>

---------------------------------------------------------------------------
(* Bounds and number types *)

AngleScale == 2         \* fixed-point units per degree (half degrees)
MaxAngle == 720         \* angles of -MaxAngle..MaxAngle degrees are tried

MaxPathLen == 2         \* paths of up to MaxPathLen arbitrary moves are built
MaxOtherLen == 1        \* each_zip is given paths of up to MaxOtherLen moves
MaxNormLen == 4         \* paths of up to MaxNormLen arbitrary moves are normalized
MaxRevLen == 3          \* paths of up to MaxRevLen arbitrary moves are reversed
MaxRun == 130           \* runs of up to MaxRun equal moves are built
MaxCoord == 4           \* displacements within MaxCoord of 0 or of an i8 extreme
MaxIter == 512          \* iterations given to the loop of Path::from_vector

I8Min == -128
I8Max == 127
I8 == I8Min..I8Max

Ok(v) == [panic |-> FALSE, v |-> v]
Panicked(msg) == [panic |-> TRUE, v |-> msg]

Deg(d) == d * AngleScale

\* two's-complement wrap-around of an i8 result
Wrap8(n) == ((n - I8Min) % (I8Max - I8Min + 1)) + I8Min

\* i8 `+` and `-`: a result out of range panics when the build checks
\* overflow and wraps when it does not
I8Arith(n, checks) ==
    IF n \in I8 THEN Ok(n)
    ELSE IF checks THEN Panicked("attempt to add with overflow")
    ELSE Ok(Wrap8(n))

\* i8::signum
signum(v) == IF v > 0 THEN 1 ELSE IF v < 0 THEN -1 ELSE 0

\* f64 `%`: the remainder has the sign of the dividend (truncated division)
Rem(a, n) == IF a >= 0 THEN a % n ELSE -((-a) % n)

---------------------------------------------------------------------------
(* balance.rs *)

Balance ==
    {"TopLeft", "Top", "TopRight", "Left", "Center", "Right",
     "BottomLeft", "Bottom", "BottomRight"}

has_top(self) == self \in {"Top", "TopLeft", "TopRight"}

has_bottom(self) == self \in {"Bottom", "BottomLeft", "BottomRight"}

has_left(self) == self \in {"Left", "TopLeft", "BottomLeft"}

has_right(self) == self \in {"Right", "TopRight", "BottomRight"}

x(self) == IF has_left(self) THEN -1 ELSE IF has_right(self) THEN 1 ELSE 0

y(self) == IF has_top(self) THEN -1 ELSE IF has_bottom(self) THEN 1 ELSE 0

is_orthogonal(self) == self \in {"Center", "Top", "Bottom", "Left", "Right"}

---------------------------------------------------------------------------
(* conversions.rs *)

EAST == Deg(0)
NORTH_EAST == Deg(45)
NORTH == Deg(90)
NORTH_WEST == Deg(135)
\* mutant of WEST: the half turn written as -180
WEST_negative == Deg(-180)

WEST == Deg(180)
SOUTH_EAST == Deg(-45)
SOUTH == Deg(-90)
SOUTH_WEST == Deg(-135)

to_value(self) ==
    CASE self = "TopLeft" -> -4
      [] self = "Top" -> -3
      [] self = "TopRight" -> -2
      [] self = "Left" -> -1
      [] self = "Center" -> 0
      [] self = "Right" -> 1
      [] self = "BottomLeft" -> 2
      [] self = "Bottom" -> 3
      [] self = "BottomRight" -> 4

\* mutant of from_value: the ranks of BottomLeft and Bottom exchanged
from_value_swapped(value) ==
    CASE value = -4 -> Ok("TopLeft")
      [] value = -3 -> Ok("Top")
      [] value = -2 -> Ok("TopRight")
      [] value = -1 -> Ok("Left")
      [] value = 0 -> Ok("Center")
      [] value = 1 -> Ok("Right")
      [] value = 2 -> Ok("Bottom")
      [] value = 3 -> Ok("BottomLeft")
      [] value = 4 -> Ok("BottomRight")
      [] OTHER -> Panicked("Invalid value")

from_value(value) ==
    CASE value = -4 -> Ok("TopLeft")
      [] value = -3 -> Ok("Top")
      [] value = -2 -> Ok("TopRight")
      [] value = -1 -> Ok("Left")
      [] value = 0 -> Ok("Center")
      [] value = 1 -> Ok("Right")
      [] value = 2 -> Ok("BottomLeft")
      [] value = 3 -> Ok("Bottom")
      [] value = 4 -> Ok("BottomRight")
      [] OTHER -> Panicked("Invalid value")

to_angle(self) ==
    CASE self = "TopLeft" -> Ok(NORTH_WEST)
      [] self = "Top" -> Ok(NORTH)
      [] self = "TopRight" -> Ok(NORTH_EAST)
      [] self = "Left" -> Ok(WEST)
      [] self = "Right" -> Ok(EAST)
      [] self = "BottomLeft" -> Ok(SOUTH_WEST)
      [] self = "Bottom" -> Ok(SOUTH)
      [] self = "BottomRight" -> Ok(SOUTH_EAST)
      [] OTHER -> Panicked("Invalid value: cannot convert Balance::Center to an angle.")

\* mutant of from_angle: the half turn folded too (>= instead of >)
from_angle_fold_half_turn(angle) ==
    LET a1 == Rem(angle, Deg(360))
        a2 == IF a1 >= Deg(180) THEN -(Deg(360) - a1) ELSE a1
    IN  CASE a2 = EAST -> Ok("Right")
          [] a2 = NORTH_EAST -> Ok("TopRight")
          [] a2 = NORTH -> Ok("Top")
          [] a2 = NORTH_WEST -> Ok("TopLeft")
          [] a2 = WEST -> Ok("Left")
          [] a2 = SOUTH_WEST -> Ok("BottomLeft")
          [] a2 = SOUTH -> Ok("Bottom")
          [] a2 = SOUTH_EAST -> Ok("BottomRight")
          [] OTHER -> Panicked("Invalid angle. Cannot construct a Balance from an approximate angle.")

\* mutant of from_angle: the angle snapped to the nearest eighth of a turn
from_angle_rounding(angle) ==
    LET a1 == Rem(angle, Deg(360))
        a2 == IF a1 > Deg(180) THEN -(Deg(360) - a1) ELSE a1
        a3 == ((a2 + Deg(360) + (Deg(45) \div 2)) \div Deg(45)) * Deg(45) - Deg(360)
    IN  CASE a3 = EAST -> Ok("Right")
          [] a3 = NORTH_EAST -> Ok("TopRight")
          [] a3 = NORTH -> Ok("Top")
          [] a3 = NORTH_WEST -> Ok("TopLeft")
          [] a3 = WEST -> Ok("Left")
          [] a3 = SOUTH_WEST -> Ok("BottomLeft")
          [] a3 = SOUTH -> Ok("Bottom")
          [] a3 = SOUTH_EAST -> Ok("BottomRight")
          [] OTHER -> Panicked("Invalid angle. Cannot construct a Balance from an approximate angle.")

from_angle(angle) ==
    LET a1 == Rem(angle, Deg(360))
        a2 == IF a1 > Deg(180) THEN -(Deg(360) - a1) ELSE a1
    IN  CASE a2 = EAST -> Ok("Right")
          [] a2 = NORTH_EAST -> Ok("TopRight")
          [] a2 = NORTH -> Ok("Top")
          [] a2 = NORTH_WEST -> Ok("TopLeft")
          [] a2 = WEST -> Ok("Left")
          [] a2 = SOUTH_WEST -> Ok("BottomLeft")
          [] a2 = SOUTH -> Ok("Bottom")
          [] a2 = SOUTH_EAST -> Ok("BottomRight")
          [] OTHER -> Panicked("Invalid angle. Cannot construct a Balance from an approximate angle.")

to_vector(self) == <<x(self), y(self)>>

\* mutant of from_vector: the two axes confused on the anti-diagonal
from_vector_transposed(a, b) ==
    CASE a = -1 /\ b = -1 -> Ok("TopLeft")
      [] a = 0 /\ b = -1 -> Ok("Top")
      [] a = 1 /\ b = -1 -> Ok("BottomLeft")
      [] a = -1 /\ b = 0 -> Ok("Left")
      [] a = 0 /\ b = 0 -> Ok("Center")
      [] a = 1 /\ b = 0 -> Ok("Right")
      [] a = -1 /\ b = 1 -> Ok("TopRight")
      [] a = 0 /\ b = 1 -> Ok("Bottom")
      [] a = 1 /\ b = 1 -> Ok("BottomRight")
      [] OTHER -> Panicked("Invalid vector")

from_vector(a, b) ==
    CASE a = -1 /\ b = -1 -> Ok("TopLeft")
      [] a = 0 /\ b = -1 -> Ok("Top")
      [] a = 1 /\ b = -1 -> Ok("TopRight")
      [] a = -1 /\ b = 0 -> Ok("Left")
      [] a = 0 /\ b = 0 -> Ok("Center")
      [] a = 1 /\ b = 0 -> Ok("Right")
      [] a = -1 /\ b = 1 -> Ok("BottomLeft")
      [] a = 0 /\ b = 1 -> Ok("Bottom")
      [] a = 1 /\ b = 1 -> Ok("BottomRight")
      [] OTHER -> Panicked("Invalid vector")

---------------------------------------------------------------------------
(* operations.rs *)

\* i8::clamp
clamp(v, min, max) == IF v < min THEN min ELSE IF v > max THEN max ELSE v

\* mutant of up: no test of the boundary
up_unbounded(self) ==
    LET v == to_vector(self)
    IN  from_vector(v[1], v[2] - 1)

up(self) ==
    LET v == to_vector(self)
    IN  from_vector(v[1], IF v[2] = -1 THEN -1 ELSE v[2] - 1)

down(self) ==
    LET v == to_vector(self)
    IN  from_vector(v[1], IF v[2] = 1 THEN 1 ELSE v[2] + 1)

left(self) ==
    LET v == to_vector(self)
    IN  from_vector(IF v[1] = -1 THEN -1 ELSE v[1] - 1, v[2])

right(self) ==
    LET v == to_vector(self)
    IN  from_vector(IF v[1] = 1 THEN 1 ELSE v[1] + 1, v[2])

up_wrap(self) ==
    LET v == to_vector(self)
    IN  from_vector(v[1], IF v[2] = -1 THEN 1 ELSE v[2] - 1)

\* mutant of down_wrap: the boundary kept, as in down
down_wrap_clamped(self) ==
    LET v == to_vector(self)
    IN  from_vector(v[1], IF v[2] = 1 THEN 1 ELSE v[2] + 1)

down_wrap(self) ==
    LET v == to_vector(self)
    IN  from_vector(v[1], IF v[2] = 1 THEN -1 ELSE v[2] + 1)

left_wrap(self) ==
    LET v == to_vector(self)
    IN  from_vector(IF v[1] = -1 THEN 1 ELSE v[1] - 1, v[2])

\* mutant of right_wrap: the boundary wraps to the middle column
right_wrap_to_middle(self) ==
    LET v == to_vector(self)
    IN  from_vector(IF v[1] = 1 THEN 0 ELSE v[1] + 1, v[2])

right_wrap(self) ==
    LET v == to_vector(self)
    IN  from_vector(IF v[1] = 1 THEN -1 ELSE v[1] + 1, v[2])

flip_h(self) ==
    LET v == to_vector(self) IN from_vector(-v[1], v[2])

flip_v(self) ==
    LET v == to_vector(self) IN from_vector(v[1], -v[2])

\* mutant of rotate_left: the quarter turn taken the other way
rotate_left_clockwise(self) ==
    LET v == to_vector(self) IN from_vector(-v[2], v[1])

rotate_left(self) ==
    LET v == to_vector(self) IN from_vector(v[2], -v[1])

\* mutant of rotate_right: the coordinates exchanged without a sign change
rotate_right_unsigned(self) ==
    LET v == to_vector(self) IN from_vector(v[2], v[1])

rotate_right(self) ==
    LET v == to_vector(self) IN from_vector(-v[2], v[1])

center_h(self) ==
    LET v == to_vector(self) IN from_vector(0, v[2])

center_v(self) ==
    LET v == to_vector(self) IN from_vector(v[1], 0)

\* impl Not for Balance
not(self) ==
    LET v == to_vector(self) IN from_vector(v[2], v[1])

\* impl Neg for Balance
neg(self) ==
    LET v == to_vector(self) IN from_vector(-v[1], -v[2])

\* mutant of add: a sum of 2 or -2 wraps around instead of saturating
add_wrapping(self, rhs) ==
    LET v1 == to_vector(self)
        v2 == to_vector(rhs)
        wrap(v) == IF v > 1 THEN v - 3 ELSE IF v < -1 THEN v + 3 ELSE v
    IN  from_vector(wrap(v1[1] + v2[1]), wrap(v1[2] + v2[2]))

\* impl Add for Balance
add(self, rhs) ==
    LET v1 == to_vector(self)
        v2 == to_vector(rhs)
    IN  from_vector(clamp(v1[1] + v2[1], -1, 1), clamp(v1[2] + v2[2], -1, 1))

\* impl Mul for Balance
mul(self, rhs) ==
    LET v1 == to_vector(self)
        v2 == to_vector(rhs)
    IN  from_vector(v1[1] * v2[1], v1[2] * v2[2])

\* mutant of sub: the difference passed on without clamp
sub_unclamped(self, rhs) ==
    LET v1 == to_vector(self)
        v2 == to_vector(rhs)
    IN  from_vector(v1[1] - v2[1], v1[2] - v2[2])

\* impl Sub for Balance
sub(self, rhs) ==
    LET v1 == to_vector(self)
        v2 == to_vector(rhs)
    IN  from_vector(clamp(v1[1] - v2[1], -1, 1), clamp(v1[2] - v2[2], -1, 1))

---------------------------------------------------------------------------
(* lib.rs: the definitions of the single-file version of the crate *)

lib_to_vector(self) ==
    CASE self = "TopLeft" -> <<-1, -1>>
      [] self = "Top" -> <<0, -1>>
      [] self = "TopRight" -> <<1, -1>>
      [] self = "Left" -> <<-1, 0>>
      [] self = "Center" -> <<0, 0>>
      [] self = "Right" -> <<1, 0>>
      [] self = "BottomLeft" -> <<-1, 1>>
      [] self = "Bottom" -> <<0, 1>>
      [] self = "BottomRight" -> <<1, 1>>

lib_from_vector(a, b) ==
    CASE a = -1 /\ b = -1 -> Ok("TopLeft")
      [] a = 0 /\ b = -1 -> Ok("Top")
      [] a = 1 /\ b = -1 -> Ok("TopRight")
      [] a = -1 /\ b = 0 -> Ok("Left")
      [] a = 0 /\ b = 0 -> Ok("Center")
      [] a = 1 /\ b = 0 -> Ok("Right")
      [] a = -1 /\ b = 1 -> Ok("BottomLeft")
      [] a = 0 /\ b = 1 -> Ok("Bottom")
      [] a = 1 /\ b = 1 -> Ok("BottomRight")
      [] OTHER -> Panicked("Invalid vector")

\* y - 1 and the like are i8 operations on -1, 0 or 1: they cannot overflow
lib_up(self) ==
    LET v == lib_to_vector(self)
    IN  lib_from_vector(v[1], clamp(v[2] - 1, -1, 1))

lib_down(self) ==
    LET v == lib_to_vector(self)
    IN  lib_from_vector(v[1], clamp(v[2] + 1, -1, 1))

\* mutant of lib_left: the coordinate clamped before the step, not after
lib_left_clamp_first(self) ==
    LET v == lib_to_vector(self)
    IN  lib_from_vector(clamp(v[1], -1, 1) - 1, v[2])

lib_left(self) ==
    LET v == lib_to_vector(self)
    IN  lib_from_vector(clamp(v[1] - 1, -1, 1), v[2])

lib_right(self) ==
    LET v == lib_to_vector(self)
    IN  lib_from_vector(clamp(v[1] + 1, -1, 1), v[2])

\* the function of lib.rs named op, called on args
ApplyLib(op, args) ==
    CASE op = "to_vector" -> Ok(lib_to_vector(args[1]))
      [] op = "from_vector" -> lib_from_vector(args[1], args[2])
      [] op = "up" -> lib_up(args[1])
      [] op = "down" -> lib_down(args[1])
      [] op = "left" -> lib_left(args[1])
      [] op = "right" -> lib_right(args[1])

---------------------------------------------------------------------------
(* ternary.rs *)

\* balanced_ternary::Digit is Neg, Zero or Pos
Digit_from_i8(v) ==
    CASE v = -1 -> "Neg"
      [] v = 0 -> "Zero"
      [] v = 1 -> "Pos"

Digit_to_i8(digit) ==
    CASE digit = "Neg" -> -1
      [] digit = "Zero" -> 0
      [] digit = "Pos" -> 1

\* the one-digit operations that Balance applies to each of its coordinates
DigitFns ==
    {"possibly", "necessary", "contingently", "absolute_positive", "positive",
     "not_negative", "not_positive", "negative", "absolute_negative",
     "ht_not", "post", "pre"}

\* digit.t() for t in DigitFns, as the tests of the transforms fix it: the
\* values on Neg, Zero and Pos
DigitOp(t, digit) ==
    LET values ==
            CASE t = "possibly" -> <<"Neg", "Pos", "Pos">>
              [] t = "necessary" -> <<"Neg", "Neg", "Pos">>
              [] t = "contingently" -> <<"Neg", "Pos", "Neg">>
              [] t = "absolute_positive" -> <<"Pos", "Zero", "Pos">>
              [] t = "positive" -> <<"Zero", "Zero", "Pos">>
              [] t = "not_negative" -> <<"Zero", "Pos", "Pos">>
              [] t = "not_positive" -> <<"Neg", "Neg", "Zero">>
              [] t = "negative" -> <<"Neg", "Zero", "Zero">>
              [] t = "absolute_negative" -> <<"Neg", "Zero", "Neg">>
              [] t = "ht_not" -> <<"Pos", "Neg", "Neg">>
              [] t = "post" -> <<"Zero", "Pos", "Neg">>
              [] t = "pre" -> <<"Pos", "Neg", "Zero">>
    IN  CASE digit = "Neg" -> values[1]
          [] digit = "Zero" -> values[2]
          [] digit = "Pos" -> values[3]

to_ternary_pair(self) == <<Digit_from_i8(x(self)), Digit_from_i8(y(self))>>

\* mutant of from_ternary_pair: the two digits taken in the other order
from_ternary_pair_swapped(a, b) == from_vector(Digit_to_i8(b), Digit_to_i8(a))

from_ternary_pair(a, b) == from_vector(Digit_to_i8(a), Digit_to_i8(b))

is_true(self) == self = "BottomRight"

has_true(self) == x(self) = 1 \/ y(self) = 1

is_contradictory(self) == self \in {"TopRight", "BottomLeft"}

\* mutant of has_unknown: both coordinates required to be 0
has_unknown_both(self) == x(self) = 0 /\ y(self) = 0

has_unknown(self) == x(self) = 0 \/ y(self) = 0

\* mutant of is_certain: any value whose two coordinates agree
is_certain_agreeing(self) == x(self) = y(self)

is_certain(self) == self \in {"BottomRight", "TopLeft"}

is_uncertain(self) == ~is_certain(self)

has_false(self) == x(self) = -1 \/ y(self) = -1

is_false(self) == self = "TopLeft"

\* mutant of to_bool: an uncertain value taken as false
to_bool_lenient(self) ==
    IF is_true(self) THEN Ok(TRUE) ELSE Ok(FALSE)

to_bool(self) ==
    IF is_true(self) THEN Ok(TRUE)
    ELSE IF is_false(self) THEN Ok(FALSE)
    ELSE Panicked("Cannot convert an uncertain Balance to a boolean value.")

x_to_bool(self) ==
    IF x(self) = 1 THEN Ok(TRUE)
    ELSE IF x(self) = -1 THEN Ok(FALSE)
    ELSE Panicked("Cannot convert an unknown-x Balance to a boolean value.")

y_to_bool(self) ==
    IF y(self) = 1 THEN Ok(TRUE)
    ELSE IF y(self) = -1 THEN Ok(FALSE)
    ELSE Panicked("Cannot convert an unknown-y Balance to a boolean value.")

\* mutant of ApplyDigitFn: the digit of x used for both coordinates
ApplyDigitFn_x_twice(t, self) ==
    LET pair == to_ternary_pair(self)
    IN  from_ternary_pair(DigitOp(t, pair[1]), DigitOp(t, pair[1]))

\* self.t() for t in DigitFns: possibly, necessary, ..., pre are each
\* let (x, y) = self.to_ternary_pair(); Self::from_ternary_pair(x.t(), y.t())
ApplyDigitFn(t, self) ==
    LET pair == to_ternary_pair(self)
    IN  from_ternary_pair(DigitOp(t, pair[1]), DigitOp(t, pair[2]))

---------------------------------------------------------------------------
(* path.rs *)

\* the functions passed to each, and to each_with and each_zip
UnaryFns ==
    {"up", "down", "left", "right", "up_wrap", "down_wrap", "left_wrap",
     "right_wrap", "flip_h", "flip_v", "rotate_left", "rotate_right",
     "center_h", "center_v", "not", "neg"}

BinaryFns == {"add", "mul", "sub"}

ApplyUnary(f, p) ==
    CASE f = "up" -> up(p)
      [] f = "down" -> down(p)
      [] f = "left" -> left(p)
      [] f = "right" -> right(p)
      [] f = "up_wrap" -> up_wrap(p)
      [] f = "down_wrap" -> down_wrap(p)
      [] f = "left_wrap" -> left_wrap(p)
      [] f = "right_wrap" -> right_wrap(p)
      [] f = "flip_h" -> flip_h(p)
      [] f = "flip_v" -> flip_v(p)
      [] f = "rotate_left" -> rotate_left(p)
      [] f = "rotate_right" -> rotate_right(p)
      [] f = "center_h" -> center_h(p)
      [] f = "center_v" -> center_v(p)
      [] f = "not" -> not(p)
      [] f = "neg" -> neg(p)

ApplyBinary(f, p, q) ==
    CASE f = "add" -> add(p, q)
      [] f = "mul" -> mul(p, q)
      [] f = "sub" -> sub(p, q)

\* Option<T>
None == <<>>
Some(v) == <<v>>

Path_len(movements) == Len(movements)

Path_is_empty(movements) == Len(movements) = 0

\* index is a usize, counted from 0
Path_get(movements, index) ==
    IF index < Len(movements) THEN Some(movements[index + 1]) ELSE None

\* one iteration of the for loop of Path::to_vector, on the element st.i
\* with the sums st.x and st.y so far
Path_to_vector_body(movements, checks, st) ==
    LET ab == to_vector(movements[st.i])
        nx == I8Arith(st.x + ab[1], checks)
        ny == I8Arith(st.y + ab[2], checks)
    IN  IF nx.panic THEN nx
        ELSE IF ny.panic THEN ny
        ELSE Ok([i |-> st.i + 1, x |-> nx.v, y |-> ny.v])

\* the for loop of Path::to_vector: the next n iterations, one after the
\* other (the first half of them, then the rest), from the loop state st
RECURSIVE Path_to_vector_loop(_, _, _, _)
Path_to_vector_loop(movements, checks, st, n) ==
    IF st.panic \/ st.v.i > Len(movements) THEN st
    ELSE IF n <= 1 THEN Path_to_vector_body(movements, checks, st.v)
    ELSE Path_to_vector_loop(movements, checks,
             Path_to_vector_loop(movements, checks, st, n \div 2),
             n - (n \div 2))

Path_to_vector(movements, checks) ==
    LET end == Path_to_vector_loop(movements, checks,
                   Ok([i |-> 1, x |-> 0, y |-> 0]), Len(movements))
    IN  IF end.panic THEN end ELSE Ok(<<end.v.x, end.v.y>>)

\* mutant of Path_from_vector_body: one axis per step, x before y
Path_from_vector_body_one_axis(checks, st) ==
    LET a == signum(st.x)
        b == IF a = 0 THEN signum(st.y) ELSE 0
        nx == I8Arith(st.x - a, checks)
        ny == I8Arith(st.y - b, checks)
        step == from_vector(a, b)
    IN  IF nx.panic THEN nx
        ELSE IF ny.panic THEN ny
        ELSE IF step.panic THEN step
        ELSE Ok([x |-> nx.v, y |-> ny.v, movements |-> Append(st.movements, step.v)])

\* mutant of Path_from_vector_body: the longer axis walked alone until the
\* two magnitudes are equal, the diagonal steps last
Path_from_vector_body_straight_first(checks, st) ==
    LET mx == IF st.x < 0 THEN -st.x ELSE st.x
        my == IF st.y < 0 THEN -st.y ELSE st.y
        a == IF mx >= my THEN signum(st.x) ELSE 0
        b == IF my >= mx THEN signum(st.y) ELSE 0
        nx == I8Arith(st.x - a, checks)
        ny == I8Arith(st.y - b, checks)
        step == from_vector(a, b)
    IN  IF nx.panic THEN nx
        ELSE IF ny.panic THEN ny
        ELSE IF step.panic THEN step
        ELSE Ok([x |-> nx.v, y |-> ny.v, movements |-> Append(st.movements, step.v)])

\* mutant of Path_from_vector_body: each component rebuilt from its
\* magnitude, abs() taken in i8
Path_from_vector_body_abs(checks, st) ==
    LET a == signum(st.x)
        b == signum(st.y)
        ax == I8Arith(IF st.x < 0 THEN -st.x ELSE st.x, checks)
        ay == I8Arith(IF st.y < 0 THEN -st.y ELSE st.y, checks)
        step == from_vector(a, b)
    IN  IF ax.panic THEN ax
        ELSE IF ay.panic THEN ay
        ELSE IF step.panic THEN step
        ELSE Ok([x |-> IF a = 0 THEN 0 ELSE a * Wrap8(ax.v - 1),
                 y |-> IF b = 0 THEN 0 ELSE b * Wrap8(ay.v - 1),
                 movements |-> Append(st.movements, step.v)])

\* one iteration of the while loop of Path::from_vector
Path_from_vector_body(checks, st) ==
    LET a == signum(st.x)
        b == signum(st.y)
        nx == I8Arith(st.x - a, checks)
        ny == I8Arith(st.y - b, checks)
        step == from_vector(a, b)
    IN  IF nx.panic THEN nx
        ELSE IF ny.panic THEN ny
        ELSE IF step.panic THEN step
        ELSE Ok([x |-> nx.v, y |-> ny.v, movements |-> Append(st.movements, step.v)])

\* the while loop of Path::from_vector: at most n more iterations, one after
\* the other (the first half of them, then the rest), from the loop state st
RECURSIVE Path_from_vector_loop(_, _, _)
Path_from_vector_loop(checks, st, n) ==
    IF st.panic \/ (st.v.x = 0 /\ st.v.y = 0) THEN st
    ELSE IF n <= 1 THEN Path_from_vector_body(checks, st.v)
    ELSE Path_from_vector_loop(checks,
             Path_from_vector_loop(checks, st, n \div 2),
             n - (n \div 2))

\* a loop still running after MaxIter iterations is reported as not ending
Path_from_vector(vx, vy, checks) ==
    LET end == Path_from_vector_loop(checks,
                   Ok([x |-> vx, y |-> vy, movements |-> <<>>]), MaxIter)
    IN  IF end.panic THEN end
        ELSE IF end.v.x # 0 \/ end.v.y # 0 THEN Panicked("the loop does not end")
        ELSE Ok(end.v.movements)

\* mutant of normalized: the two sums passed to from_vector in the other order
normalized_swapped(movements, checks) ==
    LET v == Path_to_vector(movements, checks)
    IN  IF v.panic THEN v ELSE Path_from_vector(v.v[2], v.v[1], checks)

\* mutant of normalized: only the moves that stay in place are removed
normalized_drop_center(movements, checks) ==
    LET v == Path_to_vector(movements, checks)
    IN  IF v.panic THEN v
        ELSE Ok(SelectSeq(movements, LAMBDA m : m # "Center"))

normalized(movements, checks) ==
    LET v == Path_to_vector(movements, checks)
    IN  IF v.panic THEN v ELSE Path_from_vector(v.v[1], v.v[2], checks)

\* mutant of reversed: the last move brought to the front, the others kept
\* in their order
reversed_rotated(movements) ==
    IF Len(movements) = 0 THEN movements
    ELSE <<movements[Len(movements)]>>
             \o SubSeq(movements, 1, Len(movements) - 1)

reversed(movements) ==
    [i \in 1..Len(movements) |-> movements[Len(movements) + 1 - i]]

\* the for loop of Path::each from the element i on
RECURSIVE each_loop(_, _, _, _)
each_loop(f, self, i, movements) ==
    IF i > Len(self) THEN Ok(movements)
    ELSE LET r == ApplyUnary(f, self[i])
         IN  IF r.panic THEN r
             ELSE each_loop(f, self, i + 1, Append(movements, r.v))

each(f, self) == each_loop(f, self, 1, <<>>)

\* the for loop of Path::each_with from the element i on
RECURSIVE each_with_loop(_, _, _, _, _)
each_with_loop(f, self, other, i, movements) ==
    IF i > Len(self) THEN Ok(movements)
    ELSE LET r == ApplyBinary(f, self[i], other)
         IN  IF r.panic THEN r
             ELSE each_with_loop(f, self, other, i + 1, Append(movements, r.v))

each_with(f, self, other) == each_with_loop(f, self, other, 1, <<>>)

\* the for loop of Path::each_zip from the pair i on: Iterator::zip ends
\* with the shorter of the two
RECURSIVE each_zip_loop(_, _, _, _, _)
each_zip_loop(f, self, other, i, movements) ==
    IF i > Len(self) \/ i > Len(other) THEN Ok(movements)
    ELSE LET r == ApplyBinary(f, self[i], other[i])
         IN  IF r.panic THEN r
             ELSE each_zip_loop(f, self, other, i + 1, Append(movements, r.v))

\* mutant of each_zip: the operator given the element of other first
each_zip_flipped(f, self, other) == each_zip_loop(f, other, self, 1, <<>>)

each_zip(f, self, other) == each_zip_loop(f, self, other, 1, <<>>)

---------------------------------------------------------------------------
(* The conversions, each called once on an input drawn from its domain *)

Angles == Deg(-MaxAngle)..Deg(MaxAngle)

Call(op, args) == [op |-> op, args |-> args]

NotReturned == Ok(<<>>)

\* the call `op` runs and returns (or panics with) `result`
Returns(op, result) ==
    /\ pc = "call"
    /\ call.op = op
    /\ ret' = result
    /\ pc' = "done"
    /\ UNCHANGED <<bal, raw, overflow_checks, call>>

InitConv ==
    /\ bal = "Center"
    /\ raw = <<>>
    /\ overflow_checks = FALSE
    /\ \/ \E p \in Balance :
            call \in {Call("to_vector", <<p>>),
                      Call("from_vector(to_vector)", <<p>>),
                      Call("to_value", <<p>>),
                      Call("from_value(to_value)", <<p>>),
                      Call("to_angle", <<p>>),
                      Call("from_angle(to_angle)", <<p>>)}
       \/ \E a \in I8, b \in I8 : call = Call("from_vector", <<a, b>>)
       \/ \E value \in I8 : call = Call("from_value", <<value>>)
       \/ \E angle \in Angles : call = Call("from_angle", <<angle>>)
    /\ ret = NotReturned
    /\ pc = "call"

CallToVector == Returns("to_vector", Ok(to_vector(call.args[1])))

CallFromVector ==
    Returns("from_vector", from_vector(call.args[1], call.args[2]))

\* Balance::from_vector(p.to_vector().0, p.to_vector().1)
CallVectorRoundTrip ==
    Returns("from_vector(to_vector)",
            from_vector(to_vector(call.args[1])[1], to_vector(call.args[1])[2]))

CallToValue == Returns("to_value", Ok(to_value(call.args[1])))

CallFromValue == Returns("from_value", from_value(call.args[1]))

\* Balance::from_value(p.to_value())
CallValueRoundTrip ==
    Returns("from_value(to_value)", from_value(to_value(call.args[1])))

CallToAngle == Returns("to_angle", to_angle(call.args[1]))

CallFromAngle == Returns("from_angle", from_angle(call.args[1]))

\* Balance::from_angle(p.to_angle()); a panic of to_angle propagates
CallAngleRoundTrip ==
    Returns("from_angle(to_angle)",
            IF to_angle(call.args[1]).panic THEN to_angle(call.args[1])
            ELSE from_angle(to_angle(call.args[1]).v))

NextConv ==
    \/ CallToVector
    \/ CallFromVector
    \/ CallVectorRoundTrip
    \/ CallToValue
    \/ CallFromValue
    \/ CallValueRoundTrip
    \/ CallToAngle
    \/ CallFromAngle
    \/ CallAngleRoundTrip

SpecConv == InitConv /\ [][NextConv]_vars

---------------------------------------------------------------------------
(* The logic layer, each function called once on one of the nine values *)

LogicFns ==
    {"is_true", "is_false", "is_certain", "is_uncertain", "is_contradictory",
     "has_true", "has_false", "has_unknown", "to_bool", "x_to_bool",
     "y_to_bool", "is_orthogonal"}

InitLogic ==
    /\ bal = "Center"
    /\ raw = <<>>
    /\ overflow_checks = FALSE
    /\ \E f \in LogicFns \cup DigitFns, p \in Balance : call = Call(f, <<p>>)
    /\ ret = NotReturned
    /\ pc = "call"

CallIsTrue == Returns("is_true", Ok(is_true(call.args[1])))

CallIsFalse == Returns("is_false", Ok(is_false(call.args[1])))

CallIsCertain == Returns("is_certain", Ok(is_certain(call.args[1])))

CallIsUncertain == Returns("is_uncertain", Ok(is_uncertain(call.args[1])))

CallIsContradictory ==
    Returns("is_contradictory", Ok(is_contradictory(call.args[1])))

CallHasTrue == Returns("has_true", Ok(has_true(call.args[1])))

CallHasFalse == Returns("has_false", Ok(has_false(call.args[1])))

CallHasUnknown == Returns("has_unknown", Ok(has_unknown(call.args[1])))

CallToBool == Returns("to_bool", to_bool(call.args[1]))

CallXToBool == Returns("x_to_bool", x_to_bool(call.args[1]))

CallYToBool == Returns("y_to_bool", y_to_bool(call.args[1]))

CallIsOrthogonal == Returns("is_orthogonal", Ok(is_orthogonal(call.args[1])))

CallDigitFn ==
    \E t \in DigitFns : Returns(t, ApplyDigitFn(t, call.args[1]))

NextLogic ==
    \/ CallIsTrue
    \/ CallIsFalse
    \/ CallIsCertain
    \/ CallIsUncertain
    \/ CallIsContradictory
    \/ CallHasTrue
    \/ CallHasFalse
    \/ CallHasUnknown
    \/ CallToBool
    \/ CallXToBool
    \/ CallYToBool
    \/ CallIsOrthogonal
    \/ CallDigitFn

SpecLogic == InitLogic /\ [][NextLogic]_vars

---------------------------------------------------------------------------
(* The definitions of lib.rs, each called once on an input of its domain *)

InitLib ==
    /\ bal = "Center"
    /\ raw = <<>>
    /\ overflow_checks = FALSE
    /\ \/ \E f \in {"to_vector", "up", "down", "left", "right"}, p \in Balance :
             call = Call(f, <<p>>)
       \/ \E a \in I8, b \in I8 : call = Call("from_vector", <<a, b>>)
    /\ ret = NotReturned
    /\ pc = "call"

CallLib == Returns(call.op, ApplyLib(call.op, call.args))

SpecLib == InitLib /\ [][CallLib]_vars

---------------------------------------------------------------------------
(* The operators, applied one after the other to the value bal *)

InitOps ==
    /\ bal \in Balance
    /\ raw = <<>>
    /\ overflow_checks = FALSE
    /\ call = Call("none", <<>>)
    /\ ret = NotReturned
    /\ pc = "done"

\* bal = bal.op(..): a panic aborts the program and leaves bal as it is
Apply(op, args, result) ==
    /\ ~ret.panic
    /\ call' = Call(op, args)
    /\ ret' = result
    /\ bal' = IF result.panic THEN bal ELSE result.v
    /\ UNCHANGED <<raw, overflow_checks, pc>>

Up == Apply("up", <<bal>>, up(bal))

Down == Apply("down", <<bal>>, down(bal))

Left == Apply("left", <<bal>>, left(bal))

Right == Apply("right", <<bal>>, right(bal))

UpWrap == Apply("up_wrap", <<bal>>, up_wrap(bal))

DownWrap == Apply("down_wrap", <<bal>>, down_wrap(bal))

LeftWrap == Apply("left_wrap", <<bal>>, left_wrap(bal))

RightWrap == Apply("right_wrap", <<bal>>, right_wrap(bal))

FlipH == Apply("flip_h", <<bal>>, flip_h(bal))

FlipV == Apply("flip_v", <<bal>>, flip_v(bal))

RotateLeft == Apply("rotate_left", <<bal>>, rotate_left(bal))

RotateRight == Apply("rotate_right", <<bal>>, rotate_right(bal))

CenterH == Apply("center_h", <<bal>>, center_h(bal))

CenterV == Apply("center_v", <<bal>>, center_v(bal))

Not == Apply("not", <<bal>>, not(bal))

Neg == Apply("neg", <<bal>>, neg(bal))

Add == \E rhs \in Balance : Apply("add", <<bal, rhs>>, add(bal, rhs))

Mul == \E rhs \in Balance : Apply("mul", <<bal, rhs>>, mul(bal, rhs))

Sub == \E rhs \in Balance : Apply("sub", <<bal, rhs>>, sub(bal, rhs))

NextOps ==
    \/ Up
    \/ Down
    \/ Left
    \/ Right
    \/ UpWrap
    \/ DownWrap
    \/ LeftWrap
    \/ RightWrap
    \/ FlipH
    \/ FlipV
    \/ RotateLeft
    \/ RotateRight
    \/ CenterH
    \/ CenterV
    \/ Not
    \/ Neg
    \/ Add
    \/ Mul
    \/ Sub

SpecOps == InitOps /\ [][NextOps]_vars

---------------------------------------------------------------------------
(* A Path under push, pop and clear, and the calls made on it *)

\* the paths of at most n moves
PathsUpTo(n) == UNION {[1..k -> Balance] : k \in 0..n}

\* the paths passed to each_zip
OtherPaths == PathsUpTo(MaxOtherLen)

InitPath ==
    /\ bal = "Center"
    /\ raw = <<>>
    /\ overflow_checks \in BOOLEAN
    /\ call = Call("Path::new", <<>>)
    /\ ret = NotReturned
    /\ pc = "idle"

\* a method of the path is called: it leaves raw as `movements` and returns
\* (or panics with) `result`
PathCall(op, args, movements, result) ==
    /\ pc = "idle"
    /\ call' = Call(op, args)
    /\ ret' = result
    /\ raw' = movements
    /\ pc' = "done"
    /\ UNCHANGED <<bal, overflow_checks>>

\* the caller is done with the returned value
Drop ==
    /\ pc = "done"
    /\ ~ret.panic
    /\ call' = Call("none", <<>>)
    /\ ret' = NotReturned
    /\ pc' = "idle"
    /\ UNCHANGED <<bal, raw, overflow_checks>>

Push ==
    \E movement \in Balance :
        /\ Len(raw) < MaxPathLen
        /\ PathCall("push", <<movement>>, Append(raw, movement), Ok(<<>>))

Pop ==
    IF Len(raw) = 0
    THEN PathCall("pop", <<>>, raw, Ok(None))
    ELSE PathCall("pop", <<>>, SubSeq(raw, 1, Len(raw) - 1), Ok(Some(raw[Len(raw)])))

Clear == PathCall("clear", <<>>, <<>>, Ok(<<>>))

CallLen == PathCall("len", <<>>, raw, Ok(Path_len(raw)))

CallIsEmpty == PathCall("is_empty", <<>>, raw, Ok(Path_is_empty(raw)))

CallGet ==
    \E index \in 0..MaxPathLen :
        PathCall("get", <<index>>, raw, Ok(Path_get(raw, index)))

CallPathToVector ==
    PathCall("Path::to_vector", <<>>, raw, Path_to_vector(raw, overflow_checks))

CallNormalized ==
    PathCall("normalized", <<>>, raw, normalized(raw, overflow_checks))

CallReversed == PathCall("reversed", <<>>, raw, Ok(reversed(raw)))

CallEach ==
    \E f \in UnaryFns : PathCall("each", <<f>>, raw, each(f, raw))

CallEachWith ==
    \E f \in BinaryFns, other \in Balance :
        PathCall("each_with", <<f, other>>, raw, each_with(f, raw, other))

CallEachZip ==
    \E f \in BinaryFns, other \in OtherPaths :
        PathCall("each_zip", <<f, other>>, raw, each_zip(f, raw, other))

NextPath ==
    \/ Push
    \/ Pop
    \/ Clear
    \/ CallLen
    \/ CallIsEmpty
    \/ CallGet
    \/ CallPathToVector
    \/ CallNormalized
    \/ CallReversed
    \/ CallEach
    \/ CallEachWith
    \/ CallEachZip
    \/ Drop

SpecPath == InitPath /\ [][NextPath]_vars

---------------------------------------------------------------------------
(* A Path grown by pushing the same move again and again, and its sum *)

PushRun ==
    \E movement \in Balance :
        /\ Len(raw) < MaxRun
        /\ \A i \in 1..Len(raw) : raw[i] = movement
        /\ PathCall("push", <<movement>>, Append(raw, movement), Ok(<<>>))

NextRun ==
    \/ PushRun
    \/ Pop
    \/ Clear
    \/ CallLen
    \/ CallPathToVector
    \/ Drop

SpecRun == InitPath /\ [][NextRun]_vars

---------------------------------------------------------------------------
(* A Path of a few arbitrary moves, or of one move repeated, normalized *)

PushMove ==
    \E movement \in Balance :
        /\ \/ Len(raw) < MaxNormLen
           \/ /\ Len(raw) < MaxRun
              /\ \A i \in 1..Len(raw) : raw[i] = movement
        /\ PathCall("push", <<movement>>, Append(raw, movement), Ok(<<>>))

NextNorm ==
    \/ PushMove
    \/ Pop
    \/ Clear
    \/ CallLen
    \/ CallPathToVector
    \/ CallNormalized
    \/ Drop

SpecNorm == InitPath /\ [][NextNorm]_vars

---------------------------------------------------------------------------
(* A Path of a few arbitrary moves, or of one move repeated and then one  *)
(* more move, reversed                                                     *)

PushTail ==
    \E movement \in Balance :
        /\ \/ Len(raw) < MaxRevLen
           \/ /\ Len(raw) < MaxRun
              /\ \A i \in 1..Len(raw) : raw[i] = raw[1]
        /\ PathCall("push", <<movement>>, Append(raw, movement), Ok(<<>>))

\* path.reversed().to_vector()
CallReversedToVector ==
    PathCall("reversed.to_vector", <<>>, raw,
             Path_to_vector(reversed(raw), overflow_checks))

NextRev ==
    \/ PushTail
    \/ Pop
    \/ Clear
    \/ CallPathToVector
    \/ CallReversed
    \/ CallReversedToVector
    \/ Drop

SpecRev == InitPath /\ [][NextRev]_vars

---------------------------------------------------------------------------
(* Path::from_vector on i8 pairs, then to_vector on the path it built *)

\* the i8 values next to 0 and next to the two extremes
NearEnds ==
    {v \in I8 : \/ -MaxCoord <= v /\ v <= MaxCoord
                \/ v <= I8Min + MaxCoord
                \/ v >= I8Max - MaxCoord}

InitDecompose ==
    /\ bal = "Center"
    /\ raw = <<>>
    /\ overflow_checks \in BOOLEAN
    /\ \E vx \in I8, vy \in I8 :
          /\ vx \in NearEnds \/ vy \in NearEnds
          /\ call = Call("Path::from_vector", <<vx, vy>>)
    /\ ret = NotReturned
    /\ pc = "call"

\* let path = Path::from_vector(x, y)
CallPathFromVector ==
    /\ pc = "call"
    /\ call.op = "Path::from_vector"
    /\ LET r == Path_from_vector(call.args[1], call.args[2], overflow_checks)
       IN  /\ ret' = r
           /\ raw' = IF r.panic THEN raw ELSE r.v
           /\ pc' = IF r.panic THEN "done" ELSE "built"
    /\ UNCHANGED <<bal, overflow_checks, call>>

\* path.to_vector()
CallBuiltToVector ==
    /\ pc = "built"
    /\ ret' = Path_to_vector(raw, overflow_checks)
    /\ pc' = "done"
    /\ UNCHANGED <<bal, raw, overflow_checks, call>>

NextDecompose ==
    \/ CallPathFromVector
    \/ CallBuiltToVector

SpecDecompose == InitDecompose /\ [][NextDecompose]_vars

---------------------------------------------------------------------------
(* The while loop of Path::from_vector, one iteration at a time: ret holds *)
(* the loop's x, y and movements                                           *)

InitLoop ==
    /\ bal = "Center"
    /\ raw = <<>>
    /\ overflow_checks \in BOOLEAN
    /\ \E vx \in NearEnds, vy \in NearEnds :
          call = Call("Path::from_vector", <<vx, vy>>)
    /\ ret = Ok([x |-> call.args[1], y |-> call.args[2], movements |-> <<>>])
    /\ pc = "loop"

\* while x != 0 || y != 0 { ... }
LoopIteration ==
    /\ pc = "loop"
    /\ ret.v.x # 0 \/ ret.v.y # 0
    /\ ret' = Path_from_vector_body(overflow_checks, ret.v)
    /\ pc' = IF ret'.panic THEN "done" ELSE "loop"
    /\ UNCHANGED <<bal, raw, overflow_checks, call>>

\* Self { raw: movements }
LoopExit ==
    /\ pc = "loop"
    /\ ret.v.x = 0 /\ ret.v.y = 0
    /\ raw' = ret.v.movements
    /\ pc' = "done"
    /\ UNCHANGED <<bal, overflow_checks, call, ret>>

NextLoop ==
    \/ LoopIteration
    \/ LoopExit

\* the function runs on its own: an iteration that can be taken is taken
SpecLoop == InitLoop /\ [][NextLoop]_vars /\ WF_vars(NextLoop)

---------------------------------------------------------------------------
(* The data-model table of the specification: (x,y), rank, angle in degrees *)

TableVector(p) ==
    CASE p = "TopLeft" -> <<-1, -1>>
      [] p = "Top" -> <<0, -1>>
      [] p = "TopRight" -> <<1, -1>>
      [] p = "Left" -> <<-1, 0>>
      [] p = "Center" -> <<0, 0>>
      [] p = "Right" -> <<1, 0>>
      [] p = "BottomLeft" -> <<-1, 1>>
      [] p = "Bottom" -> <<0, 1>>
      [] p = "BottomRight" -> <<1, 1>>

TableRank(p) ==
    CASE p = "TopLeft" -> -4
      [] p = "Top" -> -3
      [] p = "TopRight" -> -2
      [] p = "Left" -> -1
      [] p = "Center" -> 0
      [] p = "Right" -> 1
      [] p = "BottomLeft" -> 2
      [] p = "Bottom" -> 3
      [] p = "BottomRight" -> 4

\* defined for the eight values other than Center
TableAngle(p) ==
    CASE p = "TopLeft" -> 135
      [] p = "Top" -> 90
      [] p = "TopRight" -> 45
      [] p = "Left" -> 180
      [] p = "Right" -> 0
      [] p = "BottomLeft" -> -135
      [] p = "Bottom" -> -90
      [] p = "BottomRight" -> -45

Directions == Balance \ {"Center"}

Abs(v) == IF v < 0 THEN -v ELSE v

Max(a, b) == IF a >= b THEN a ELSE b

Min(a, b) == IF a <= b THEN a ELSE b

\* v saturated to -1..1
Saturated(v) == Max(-1, Min(1, v))

\* f applied n times to p, a panic ending the chain
RECURSIVE Iterated(_, _, _)
Iterated(f, p, n) ==
    IF n = 0 THEN Ok(p)
    ELSE LET r == ApplyUnary(f, p)
         IN  IF r.panic THEN r ELSE Iterated(f, r.v, n - 1)

Unit == {-1, 0, 1}

Done(op) == pc = "done" /\ call.op = op

\* the angle of (-180, 180] degrees congruent to a modulo a full turn
NormalizedAngle(a) ==
    LET m == a % Deg(360) IN IF m > Deg(180) THEN m - Deg(360) ELSE m

CanonicalAngles == {Deg(TableAngle(p)) : p \in Directions}

---------------------------------------------------------------------------
(* Claims on the conversions, checked under SpecConv *)

\* C1: from_vector and to_vector are mutually inverse on the nine values:
\* to_vector(p) is the pair of the table, with both coordinates in
\* {-1,0,1} and different from the pair of every other value;
\* from_vector(to_vector(p)) = p; and from_vector panics on every i8 pair
\* with a coordinate outside {-1,0,1}.
C1_VectorInverse ==
    /\ Done("to_vector") =>
          /\ ret.v = TableVector(call.args[1])
          /\ ret.v[1] \in Unit /\ ret.v[2] \in Unit
          /\ \A q \in Balance \ {call.args[1]} : to_vector(q) # ret.v
    /\ Done("from_vector(to_vector)") => ret = Ok(call.args[1])
    /\ Done("from_vector") =>
          /\ (call.args[1] \notin Unit \/ call.args[2] \notin Unit) => ret.panic
          /\ ~ret.panic => to_vector(ret.v) = <<call.args[1], call.args[2]>>

C1_Witness ==
    /\ Done("from_vector(to_vector)")
    /\ call.args = <<"BottomLeft">>
    /\ ret = Ok("BottomLeft")

\* C2: to_value and from_value are a bijection between the nine values and
\* the ranks -4..4 of the table: from_value(to_value(p)) = p,
\* to_value(from_value(r)) = r for r in -4..4, every rank of -4..4 is taken,
\* and from_value panics on every i8 outside -4..4.
C2_RankBijection ==
    /\ Done("to_value") =>
          /\ ret.v = TableRank(call.args[1])
          /\ {to_value(q) : q \in Balance} = -4..4
    /\ Done("from_value(to_value)") => ret = Ok(call.args[1])
    /\ Done("from_value") =>
          IF call.args[1] \in -4..4
          THEN ~ret.panic /\ ret.v \in Balance /\ to_value(ret.v) = call.args[1]
          ELSE ret.panic

C2_Witness ==
    /\ Done("from_value")
    /\ call.args = <<2>>
    /\ ret = Ok("BottomLeft")

\* C4: from_angle normalizes its argument modulo 360 into (-180, 180] and
\* then matches: on every multiple of 45 degrees, positive or negative, it
\* returns the value whose table angle is congruent to it modulo 360.
C4_FromAngleNormalizes ==
    (Done("from_angle") /\ call.args[1] % Deg(45) = 0) =>
        /\ ~ret.panic
        /\ ret.v \in Directions
        /\ Deg(TableAngle(ret.v)) = NormalizedAngle(call.args[1])

\* C7: for each of the eight values p other than Center,
\* from_angle(to_angle(p)) = p, and no two of them have the same to_angle.
C7_AngleRoundTrip ==
    /\ (Done("from_angle(to_angle)") /\ call.args[1] # "Center") =>
          ret = Ok(call.args[1])
    /\ (Done("to_angle") /\ call.args[1] # "Center") =>
          /\ ~ret.panic
          /\ \A q \in Directions \ {call.args[1]} : to_angle(q) # ret

C7_Witness ==
    /\ Done("from_angle(to_angle)")
    /\ call.args = <<"Left">>
    /\ ret = Ok("Left")

\* C8: to_angle panics on Center and on no other value; on each of the other
\* eight it returns the angle of the table, a multiple of 45 degrees in
\* the half-open range (-180, 180].
C8_ToAngleTable ==
    Done("to_angle") =>
        /\ ret.panic <=> call.args[1] = "Center"
        /\ ~ret.panic =>
              /\ ret.v = Deg(TableAngle(call.args[1]))
              /\ ret.v % Deg(45) = 0
              /\ Deg(-180) < ret.v /\ ret.v <= Deg(180)

C8_Witness ==
    /\ Done("to_angle")
    /\ call.args = <<"Center">>
    /\ ret.panic

\* C9: from_angle does not snap or round: on every angle whose normalization
\* into (-180, 180] is not one of the eight canonical multiples of 45
\* degrees, it panics.
C9_FromAngleExact ==
    (Done("from_angle") /\ NormalizedAngle(call.args[1]) \notin CanonicalAngles) =>
        ret.panic

C9_Witness ==
    /\ Done("from_angle")
    /\ call.args = <<Deg(46)>>
    /\ ret.panic

---------------------------------------------------------------------------
(* Claims on the operators, checked under SpecOps *)

\* C10: the operators are total and closed over the nine values: after any
\* finite composition of up, down, left, right, the four wrapping moves, the
\* flips, the rotations, center_h, center_v, !, unary -, +, - and *, starting
\* from any value, no operator has reached the "Invalid vector" panic of
\* from_vector and the value is one of the nine.
C10_OperatorsClosed ==
    /\ bal \in Balance
    /\ call.op # "none" =>
          /\ ~ret.panic
          /\ ret.v \in Balance
          /\ bal = ret.v

C10_Witness ==
    /\ call = Call("mul", <<"TopLeft", "BottomRight">>)
    /\ ret = Ok("TopLeft")
    /\ bal = "TopLeft"

\* the coordinates a clamped move of p must give
ClampedTarget(f, p) ==
    LET v == TableVector(p)
    IN  CASE f = "up" -> <<v[1], Max(v[2] - 1, -1)>>
          [] f = "down" -> <<v[1], Min(v[2] + 1, 1)>>
          [] f = "left" -> <<Max(v[1] - 1, -1), v[2]>>
          [] f = "right" -> <<Min(v[1] + 1, 1), v[2]>>

\* p is at the boundary the move f goes to
AtBoundary(f, p) ==
    LET v == TableVector(p)
    IN  CASE f \in {"up", "up_wrap"} -> v[2] = -1
          [] f \in {"down", "down_wrap"} -> v[2] = 1
          [] f \in {"left", "left_wrap"} -> v[1] = -1
          [] f \in {"right", "right_wrap"} -> v[1] = 1

\* C11: up, down, left and right change only the addressed coordinate, by
\* one step saturated at the boundary (up: y -> max(y-1,-1), down:
\* y -> min(y+1,1), left: x -> max(x-1,-1), right: x -> min(x+1,1)); a value
\* at the boundary in that direction is returned unchanged; and from any
\* start two applications reach a fixed point of the operator, which four
\* applications reach too.
C11_ClampedMovement ==
    call.op \in {"up", "down", "left", "right"} =>
        /\ ~ret.panic
        /\ to_vector(ret.v) = ClampedTarget(call.op, call.args[1])
        /\ AtBoundary(call.op, call.args[1]) => ret.v = call.args[1]
        /\ LET twice == ApplyUnary(call.op, ret.v)
           IN  /\ ~twice.panic
               /\ AtBoundary(call.op, twice.v)
               /\ ApplyUnary(call.op, twice.v) = twice
               /\ Iterated(call.op, call.args[1], 4) = twice

C11_Witness ==
    /\ call = Call("up", <<"Top">>)
    /\ ret = Ok("Top")
    /\ bal = "Top"

\* the coordinates a wrapping move of p must give
WrapTarget(f, p) ==
    LET v == TableVector(p)
    IN  CASE f = "up_wrap" -> <<v[1], IF v[2] = -1 THEN 1 ELSE v[2] - 1>>
          [] f = "down_wrap" -> <<v[1], IF v[2] = 1 THEN -1 ELSE v[2] + 1>>
          [] f = "left_wrap" -> <<IF v[1] = -1 THEN 1 ELSE v[1] - 1, v[2]>>
          [] f = "right_wrap" -> <<IF v[1] = 1 THEN -1 ELSE v[1] + 1, v[2]>>

\* C12: up_wrap, down_wrap, left_wrap and right_wrap move the addressed
\* coordinate one step and, at the boundary in that direction, set it to the
\* opposite extreme; the other coordinate is unchanged in every case.
C12_WrappingMovement ==
    call.op \in {"up_wrap", "down_wrap", "left_wrap", "right_wrap"} =>
        /\ ~ret.panic
        /\ to_vector(ret.v) = WrapTarget(call.op, call.args[1])
        /\ AtBoundary(call.op, call.args[1]) =>
              to_vector(ret.v)[IF call.op \in {"up_wrap", "down_wrap"} THEN 2 ELSE 1]
                = -TableVector(call.args[1])[IF call.op \in {"up_wrap", "down_wrap"} THEN 2 ELSE 1]

C12_Witness ==
    /\ call = Call("right_wrap", <<"BottomRight">>)
    /\ ret = Ok("BottomLeft")
    /\ bal = "BottomLeft"

\* the wrapping move that goes the other way
OppositeWrap(f) ==
    CASE f = "up_wrap" -> "down_wrap"
      [] f = "down_wrap" -> "up_wrap"
      [] f = "left_wrap" -> "right_wrap"
      [] f = "right_wrap" -> "left_wrap"

\* C13: opposite wrapping moves are mutual inverses: p.up_wrap().down_wrap(),
\* p.down_wrap().up_wrap(), p.left_wrap().right_wrap() and
\* p.right_wrap().left_wrap() all equal p.
C13_WrapInverses ==
    call.op \in {"up_wrap", "down_wrap", "left_wrap", "right_wrap"} =>
        /\ ~ret.panic
        /\ ApplyUnary(OppositeWrap(call.op), ret.v) = Ok(call.args[1])

C13_Witness ==
    /\ call = Call("up_wrap", <<"TopRight">>)
    /\ ret = Ok("BottomRight")
    /\ down_wrap(bal) = Ok("TopRight")

\* C14: rotate_left four times and rotate_right four times return p,
\* p.rotate_left().rotate_right() and p.rotate_right().rotate_left() equal
\* p, and Center is a fixed point of both.
C14_RotationAlgebra ==
    /\ call.op = "rotate_left" =>
          /\ ~ret.panic
          /\ rotate_right(ret.v) = Ok(call.args[1])
          /\ Iterated("rotate_left", call.args[1], 4) = Ok(call.args[1])
          /\ call.args[1] = "Center" => ret.v = "Center"
    /\ call.op = "rotate_right" =>
          /\ ~ret.panic
          /\ rotate_left(ret.v) = Ok(call.args[1])
          /\ Iterated("rotate_right", call.args[1], 4) = Ok(call.args[1])
          /\ call.args[1] = "Center" => ret.v = "Center"

C14_Witness ==
    /\ call = Call("rotate_left", <<"TopRight">>)
    /\ ret = Ok("TopLeft")
    /\ rotate_right(bal) = Ok("TopRight")

\* C15: with respect to to_angle, rotate_left is a quarter turn
\* counter-clockwise and rotate_right a quarter turn clockwise: for p other
\* than Center, to_angle(p.rotate_left()) is to_angle(p) + 90 modulo 360 and
\* to_angle(p.rotate_right()) is to_angle(p) - 90 modulo 360.
C15_RotationAngles ==
    (call.op \in {"rotate_left", "rotate_right"} /\ call.args[1] # "Center") =>
        /\ ~ret.panic
        /\ ~to_angle(ret.v).panic
        /\ (to_angle(ret.v).v - to_angle(call.args[1]).v
             - (IF call.op = "rotate_left" THEN Deg(90) ELSE Deg(-90))) % Deg(360) = 0

C15_Witness ==
    /\ call = Call("rotate_left", <<"Right">>)
    /\ ret = Ok("Top")
    /\ to_angle(bal) = Ok(Deg(90))

\* C16: p + q and p - q are the componentwise sum and difference with each
\* component saturated to -1..1, also where the raw result is 2 or -2
\* (Right + Right = Right, TopLeft - BottomRight = TopLeft), and neither
\* operator fails.
C16_ClampedAddSub ==
    call.op \in {"add", "sub"} =>
        LET p == TableVector(call.args[1])
            q == TableVector(call.args[2])
            s == IF call.op = "add" THEN 1 ELSE -1
        IN  /\ ~ret.panic
            /\ to_vector(ret.v)
                 = <<Saturated(p[1] + s * q[1]), Saturated(p[2] + s * q[2])>>
            /\ to_vector(ret.v)[1] \in Unit /\ to_vector(ret.v)[2] \in Unit

C16_Witness ==
    /\ call = Call("sub", <<"TopLeft", "BottomRight">>)
    /\ ret = Ok("TopLeft")
    /\ bal = "TopLeft"

---------------------------------------------------------------------------
(* Claims on the logic layer, checked under SpecLogic *)

\* C17: exactly two of the nine values are certain, BottomRight and TopLeft;
\* is_true holds exactly for BottomRight and is_false exactly for TopLeft,
\* never both; is_certain(p) = (is_true(p) or is_false(p)) and
\* is_uncertain(p) = not is_certain(p) for every p.
C17_Certainty ==
    /\ Done("is_certain") =>
          /\ ret.v = (call.args[1] \in {"BottomRight", "TopLeft"})
          /\ ret.v = (is_true(call.args[1]) \/ is_false(call.args[1]))
          /\ Cardinality({q \in Balance : is_certain(q)}) = 2
    /\ Done("is_true") =>
          /\ ret.v = (call.args[1] = "BottomRight")
          /\ ~(ret.v /\ is_false(call.args[1]))
          /\ ret.v => is_certain(call.args[1])
    /\ Done("is_false") =>
          /\ ret.v = (call.args[1] = "TopLeft")
          /\ ~(ret.v /\ is_true(call.args[1]))
          /\ ret.v => is_certain(call.args[1])
    /\ Done("is_uncertain") =>
          /\ ret.v = (call.args[1] \notin {"BottomRight", "TopLeft"})
          /\ ret.v = ~is_certain(call.args[1])

C17_Witness ==
    /\ Done("is_certain")
    /\ call.args = <<"TopLeft">>
    /\ ret = Ok(TRUE)

\* C18: to_bool returns true exactly on BottomRight, false exactly on
\* TopLeft, and panics on each of the seven uncertain values; x_to_bool
\* panics exactly when x = 0 and otherwise returns (x = 1); y_to_bool panics
\* exactly when y = 0 and otherwise returns (y = 1); so on a certain value
\* to_bool, x_to_bool and y_to_bool agree.
C18_BooleanGuards ==
    /\ Done("to_bool") =>
          /\ ret.panic <=> call.args[1] \notin {"BottomRight", "TopLeft"}
          /\ ret.panic <=> is_uncertain(call.args[1])
          /\ ~ret.panic =>
                /\ ret.v = (call.args[1] = "BottomRight")
                /\ ~x_to_bool(call.args[1]).panic
                /\ x_to_bool(call.args[1]).v = ret.v
                /\ ~y_to_bool(call.args[1]).panic
                /\ y_to_bool(call.args[1]).v = ret.v
    /\ Done("x_to_bool") =>
          /\ ret.panic <=> TableVector(call.args[1])[1] = 0
          /\ ~ret.panic => ret.v = (TableVector(call.args[1])[1] = 1)
    /\ Done("y_to_bool") =>
          /\ ret.panic <=> TableVector(call.args[1])[2] = 0
          /\ ~ret.panic => ret.v = (TableVector(call.args[1])[2] = 1)

C18_Witness ==
    /\ Done("to_bool")
    /\ call.args = <<"Center">>
    /\ ret.panic

\* C27: is_uncertain(p) = (is_contradictory(p) or has_unknown(p)) for every
\* p; is_contradictory holds exactly for TopRight and BottomLeft and
\* has_unknown exactly for Top, Left, Center, Right and Bottom, the values
\* of is_orthogonal; the two sets are disjoint and, with the two certain
\* values, partition the nine values.
C27_UncertaintyDecomposition ==
    /\ Done("is_uncertain") =>
          ret.v = (is_contradictory(call.args[1]) \/ has_unknown(call.args[1]))
    /\ Done("is_contradictory") =>
          /\ ret.v = (call.args[1] \in {"TopRight", "BottomLeft"})
          /\ ~(ret.v /\ has_unknown(call.args[1]))
          /\ ~(ret.v /\ is_certain(call.args[1]))
    /\ Done("has_unknown") =>
          /\ ret.v = (call.args[1] \in {"Top", "Left", "Center", "Right", "Bottom"})
          /\ ret.v = is_orthogonal(call.args[1])
          /\ ~(ret.v /\ is_certain(call.args[1]))
    /\ Done("is_orthogonal") => ret.v = has_unknown(call.args[1])
    /\ Done("is_certain") =>
          (ret.v \/ is_contradictory(call.args[1]) \/ has_unknown(call.args[1]))

C27_Witness ==
    /\ Done("has_unknown")
    /\ call.args = <<"Top">>
    /\ ret = Ok(TRUE)

\* the digit maps of the unary transforms, as values on -1, 0 and 1
DigitMap(t) ==
    CASE t = "possibly" -> <<-1, 1, 1>>
      [] t = "necessary" -> <<-1, -1, 1>>
      [] t = "contingently" -> <<-1, 1, -1>>
      [] t = "absolute_positive" -> <<1, 0, 1>>
      [] t = "positive" -> <<0, 0, 1>>
      [] t = "not_negative" -> <<0, 1, 1>>
      [] t = "not_positive" -> <<-1, -1, 0>>
      [] t = "negative" -> <<-1, 0, 0>>
      [] t = "absolute_negative" -> <<-1, 0, -1>>
      [] t = "ht_not" -> <<1, -1, -1>>
      [] t = "post" -> <<0, 1, -1>>
      [] t = "pre" -> <<1, -1, 0>>

\* C28: for each unary transform t and every p of coordinates (x,y), t(p)
\* has the coordinates (m_t(x), m_t(y)), m_t being the digit map of t: the
\* x of the result depends on x alone and its y on y alone.
C28_TransformsPerAxis ==
    (pc = "done" /\ call.op \in DigitFns) =>
        /\ ~ret.panic
        /\ TableVector(ret.v)[1] = DigitMap(call.op)[TableVector(call.args[1])[1] + 2]
        /\ TableVector(ret.v)[2] = DigitMap(call.op)[TableVector(call.args[1])[2] + 2]
        /\ \A q \in Balance :
              /\ TableVector(q)[1] = TableVector(call.args[1])[1] =>
                    TableVector(ApplyDigitFn(call.op, q).v)[1] = TableVector(ret.v)[1]
              /\ TableVector(q)[2] = TableVector(call.args[1])[2] =>
                    TableVector(ApplyDigitFn(call.op, q).v)[2] = TableVector(ret.v)[2]

C28_Witness ==
    /\ Done("ht_not")
    /\ call.args = <<"Top">>
    /\ ret = Ok("BottomLeft")

\* C29: pre(post(p)) = p and post(pre(p)) = p for every p, post applied
\* three times returns p, post(p) = p.right_wrap().down_wrap() and
\* pre(p) = p.left_wrap().up_wrap().
C29_PostPreCycle ==
    /\ Done("post") =>
          /\ ~ret.panic
          /\ ApplyDigitFn("pre", ret.v) = Ok(call.args[1])
          /\ ApplyDigitFn("post", ApplyDigitFn("post", ret.v).v) = Ok(call.args[1])
          /\ ret = down_wrap(right_wrap(call.args[1]).v)
    /\ Done("pre") =>
          /\ ~ret.panic
          /\ ApplyDigitFn("post", ret.v) = Ok(call.args[1])
          /\ ret = up_wrap(left_wrap(call.args[1]).v)

C29_Witness ==
    /\ Done("post")
    /\ call.args = <<"TopRight">>
    /\ ret = Ok("Left")

---------------------------------------------------------------------------
(* Claims on lib.rs, checked under SpecLib *)

\* the result of the modular definition of the function named op
Modular(op, args) ==
    CASE op = "to_vector" -> Ok(to_vector(args[1]))
      [] op = "from_vector" -> from_vector(args[1], args[2])
      [] op = "up" -> up(args[1])
      [] op = "down" -> down(args[1])
      [] op = "left" -> left(args[1])
      [] op = "right" -> right(args[1])

\* C30: for every p the definitions of lib.rs (to_vector by table; up,
\* down, left, right by clamp) return what the modular definitions return
\* (to_vector from x() and y(); up, down, left, right by a test of the
\* boundary), and from_vector returns the same value, or fails in both, on
\* every i8 pair.
C30_DuplicatesAgree ==
    pc = "done" =>
        /\ ret.panic = Modular(call.op, call.args).panic
        /\ ~ret.panic => ret.v = Modular(call.op, call.args).v
        /\ call.op # "from_vector" => ~ret.panic
        /\ call.op = "from_vector" =>
              (ret.panic <=> (Abs(call.args[1]) > 1 \/ Abs(call.args[2]) > 1))

C30_Witness ==
    /\ Done("left")
    /\ call.args = <<"TopLeft">>
    /\ ret = Ok("TopLeft")

---------------------------------------------------------------------------
(* Claims on Path *)

\* the sum of the x (axis = 1) or y (axis = 2) coordinates of the moves, as
\* an integer of any size: the moves at +1 less the moves at -1
CoordinateSum(movements, axis) ==
    Cardinality({i \in 1..Len(movements) : to_vector(movements[i])[axis] = 1})
    - Cardinality({i \in 1..Len(movements) : to_vector(movements[i])[axis] = -1})

\* C3: each_zip fails whenever the two paths differ in length; it never
\* returns a path truncated to the shorter of the two.  (Under SpecPath.)
C3_EachZipLengthMismatch ==
    (Done("each_zip") /\ Len(raw) # Len(call.args[2])) => ret.panic

\* C5: Path::to_vector returns the exact integer sum of the coordinates of
\* all the elements, for a path of any length, without clamping or
\* confining it to a range: 128 Right steps give (128, 0).  (Under SpecRun.)
C5_ToVectorExactSum ==
    Done("Path::to_vector") =>
        /\ ~ret.panic
        /\ ret.v = <<CoordinateSum(raw, 1), CoordinateSum(raw, 2)>>

\* C6: for every i8 pair (x,y), -128 and 127 included,
\* Path::from_vector(x,y) has max(|x|,|y|) elements, is empty for (0,0), and
\* its to_vector is (x,y).  (Under SpecDecompose.)
C6_PathRoundTrip ==
    /\ pc \in {"built", "done"} =>
          /\ Len(raw) = Max(Abs(call.args[1]), Abs(call.args[2]))
          /\ call.args = <<0, 0>> => raw = <<>>
    /\ pc = "built" => ~ret.panic /\ ret.v = raw
    /\ pc = "done" => ~ret.panic /\ ret.v = call.args

C6_Witness ==
    /\ pc = "done"
    /\ call = Call("Path::from_vector", <<-128, 127>>)
    /\ Len(raw) = 128
    /\ ret = Ok(<<-128, 127>>)

\* C19: for every path whose to_vector does not overflow,
\* path.normalized().normalized() is the same sequence of moves as
\* path.normalized().  (Under SpecNorm.)
C19_NormalizedIdempotent ==
    (Done("normalized") /\ ~Path_to_vector(raw, TRUE).panic) =>
        /\ ~ret.panic
        /\ ~normalized(ret.v, overflow_checks).panic
        /\ normalized(ret.v, overflow_checks).v = ret.v

C19_Witness ==
    /\ Done("normalized")
    /\ raw = <<"Top", "Bottom", "Right", "Right">>
    /\ ret = Ok(<<"Right", "Right">>)

\* C20: for every path p with (x,y) = p.to_vector(), p.normalized() has the
\* vector (x,y) and max(|x|,|y|) moves, and is not longer than p:
\* [Top,Top,Top,Bottom] normalizes to 2 moves of vector (0,-2).
\* (Under SpecNorm.)
C20_NormalizedMinimal ==
    (Done("normalized") /\ ~Path_to_vector(raw, overflow_checks).panic) =>
        LET v == Path_to_vector(raw, overflow_checks).v
        IN  /\ ~ret.panic
            /\ ~Path_to_vector(ret.v, overflow_checks).panic
            /\ Path_to_vector(ret.v, overflow_checks).v = v
            /\ Len(ret.v) = Max(Abs(v[1]), Abs(v[2]))
            /\ Len(ret.v) <= Len(raw)
            /\ raw = <<"Top", "Top", "Top", "Bottom">> =>
                  Len(ret.v) = 2 /\ v = <<0, -2>>

C20_Witness ==
    /\ Done("normalized")
    /\ raw = <<"Top", "Top", "Top", "Bottom">>
    /\ ret = Ok(<<"Top", "Top">>)


\* C21: for every path p, p.reversed() has the length of p, its element i is
\* the element len-1-i of p, and p.reversed().reversed() is p.
\* (Under SpecRev.)
C21_ReversedInvolution ==
    Done("reversed") =>
        /\ ~ret.panic
        /\ Len(ret.v) = Len(raw)
        /\ \A i \in 0..(Len(raw) - 1) : ret.v[i + 1] = raw[(Len(raw) - 1 - i) + 1]
        /\ reversed(ret.v) = raw

C21_Witness ==
    /\ Done("reversed")
    /\ raw = <<"Top", "Right", "Left">>
    /\ ret = Ok(<<"Left", "Right", "Top">>)

\* C26: for every path p, p.reversed().to_vector() is p.to_vector(): both
\* return, and return the same pair.  (Under SpecRev.)
C26_ReversedSameVector ==
    Done("reversed.to_vector") =>
        /\ ret.panic = Path_to_vector(raw, overflow_checks).panic
        /\ ~ret.panic => ret.v = Path_to_vector(raw, overflow_checks).v


\* what a call made on the list `list` leaves of it, and what it returns,
\* in a list that is pushed to and popped from at its end
ListAfter(list, c) ==
    CASE c.op = "push" -> Append(list, c.args[1])
      [] c.op = "pop" -> IF list = <<>> THEN <<>> ELSE SubSeq(list, 1, Len(list) - 1)
      [] c.op = "clear" -> <<>>
      [] OTHER -> list

\* C22: after any sequence of push, pop and clear the path is the list a
\* plain stack would hold: len and is_empty are those of the list, get(i) is
\* element i for i < len and absent beyond, pop returns absent on the empty
\* path and otherwise returns and removes the last element, clear empties
\* it, and to_vector is always the sum of the coordinates of the current
\* elements.  (Under SpecRun.)
C22_PathIsList ==
    /\ [](/\ Done("len") => ret = Ok(Len(raw))
          /\ Done("is_empty") => ret = Ok(raw = <<>>)
          /\ Done("get") =>
                ret = Ok(IF call.args[1] < Len(raw)
                         THEN <<raw[call.args[1] + 1]>> ELSE <<>>)
          /\ Done("Path::to_vector") =>
                /\ ~ret.panic
                /\ ret.v[1] = CoordinateSum(raw, 1)
                /\ ret.v[2] = CoordinateSum(raw, 2))
    /\ [][(pc = "idle" /\ pc' = "done") =>
            /\ raw' = ListAfter(raw, call')
            /\ call'.op = "pop" =>
                  ret' = Ok(IF raw = <<>> THEN <<>> ELSE <<raw[Len(raw)]>>)]_vars

C24_FromVectorTerminates ==
    /\ [][(pc = "loop" /\ (ret.v.x # 0 \/ ret.v.y # 0)) =>
            /\ ~ret'.panic
            /\ pc' = "loop"
            /\ (Abs(ret.v.x) + Abs(ret.v.y))
                 - (Abs(ret'.v.x) + Abs(ret'.v.y)) \in {1, 2}
            /\ ret'.v.x * ret.v.x >= 0 /\ ret'.v.y * ret.v.y >= 0
            /\ Abs(ret'.v.x) = (IF ret.v.x = 0 THEN 0 ELSE Abs(ret.v.x) - 1)
            /\ Abs(ret'.v.y) = (IF ret.v.y = 0 THEN 0 ELSE Abs(ret.v.y) - 1)
            /\ Len(ret'.v.movements) = Len(ret.v.movements) + 1]_vars
    /\ [](pc = "done" =>
            /\ ~ret.panic
            /\ Len(raw) = Max(Abs(call.args[1]), Abs(call.args[2])))
    /\ <>(pc = "done")

C24_Witness ==
    /\ pc = "done"
    /\ call.args = <<-128, 127>>
    /\ ~ret.panic
    /\ Len(raw) = 128


\* C25: Path::from_vector(x,y) never contains Center; its first
\* min(|x|,|y|) elements are all the corner of (sign x, sign y) and the
\* max(|x|,|y|) - min(|x|,|y|) elements after them are all the edge along
\* the axis of the larger magnitude: diagonal steps first, orthogonal steps
\* last.  (Under SpecDecompose.)
C25_DecomposedShape ==
    pc \in {"built", "done"} =>
        LET vx == call.args[1]
            vy == call.args[2]
            diagonal == Min(Abs(vx), Abs(vy))
            edge == IF Abs(vx) > Abs(vy) THEN <<signum(vx), 0>>
                    ELSE <<0, signum(vy)>>
        IN  /\ Len(raw) = Max(Abs(vx), Abs(vy))
            /\ \A i \in 1..Len(raw) :
                  /\ raw[i] # "Center"
                  /\ i <= diagonal =>
                        /\ TableVector(raw[i]) = <<signum(vx), signum(vy)>>
                        /\ raw[i] \in {"TopLeft", "TopRight", "BottomLeft", "BottomRight"}
                  /\ i > diagonal =>
                        /\ TableVector(raw[i]) = edge
                        /\ raw[i] \in {"Top", "Left", "Right", "Bottom"}

C25_Witness ==
    /\ pc = "built"
    /\ call.args = <<3, -1>>
    /\ raw = <<"TopRight", "Right", "Right">>

=============================================================================
